---- MODULE Spec2Model ----
(***************************************************************************)
(* Model of snapper-rollback.py: one run of main(), from the reading of    *)
(* the configuration to the exit of the process.  Every os.* / btrfsutil   *)
(* / os.system call is one step; its result is chosen by the environment.  *)
(***************************************************************************)
EXTENDS Integers, Sequences, FiniteSets, TLC

VARIABLES cfg, fs0, fs, pc, confirmation, log, ops, exitCode, uncaught

vars == <<cfg, fs0, fs, pc, confirmation, log, ops, exitCode, uncaught>>

(* ---------------------------------------------------------------------- *)
(* Inputs of a run                                                         *)
(* ---------------------------------------------------------------------- *)

\* Values of an optional boolean key as configparser sees them.
BoolOpt == {"absent", "true", "false", "invalid"}

\* Which required key config.get() fails to find ("none": all are found).
MissingKey == {"none", "mountpoint", "subvol_main", "subvol_snapshots"}

\* The optional dev key: absent (None) or a device.
DevOpt == {"None", "/dev/sda2"}

\* Lines typed at the prompt; input() strips the trailing newline only.
Inputs == {"CONFIRM", "confirm", "Confirm", "CONFIRM ", ""}

\* str.upper() on the typed lines.
Upper(s) == CASE s = "confirm" -> "CONFIRM"
              [] s = "Confirm" -> "CONFIRM"
              [] OTHER -> s

\* What may be found at subvol_main / subvol_main_newname when the run starts.
MainStart == {"none", "orig"}
NewnameStart == {"none", "emptydir", "nonempty"}

\* Mountpoint directory and mount table at start: ismount implies isdir.
MountStart == {[dir |-> FALSE, mounted |-> FALSE],
               [dir |-> TRUE, mounted |-> FALSE],
               [dir |-> TRUE, mounted |-> TRUE]}

(* ---------------------------------------------------------------------- *)
(* Pure pieces of the code                                                 *)
(* ---------------------------------------------------------------------- *)

confirm_typed_value == "CONFIRM"

\* line 185, with the comparison made case-insensitive
confirmed_nocase(c) == Upper(c) = confirm_typed_value

\* line 185: confirmation != confirm_typed_value aborts
confirmed(c) == c = confirm_typed_value

\* lines 165-168 with subvol_snapshots read with a fallback
required_missing_lenient(c) == c.missing \in {"mountpoint", "subvol_main"}

\* lines 165-168: config.get raises NoOptionError for a missing required key
required_missing(c) == c.missing # "none"

\* lines 175-178: getboolean with default True; "invalid" raises ValueError
get_set_default_subvol(c) == c.set_default_subvol \in {"absent", "true"}

\* line 203: getboolean(..., fallback=False)
get_unmount_btrfs_root(c) == c.unmount_btrfs_root = "true"

\* line 86 with the ismount test dropped
needs_mount_always(f) == TRUE

\* line 86: if not os.path.ismount(target)
needs_mount(f) == ~f.mounted

\* line 101 with the dry_run conjunct dropped
unmount_skips_nodry(f, dry_run) == ~f.mounted

\* line 101: if not os.path.ismount(target) and not dry_run
unmount_skips(f, dry_run) == ~f.mounted /\ ~dry_run

\* line 148 with the negation dropped
needs_restore_inverted(f) == f.main # "none"

\* line 148 with the test dropped
needs_restore_always(f) == TRUE

\* line 148: if not os.path.isdir(subvol_main)
needs_restore(f) == f.main = "none"

\* The exception class a failed call raises.  os.* calls raise the OSError
\* subclass of the errno; btrfsutil raises BtrfsUtilError for every errno.
ExcOf(api, res) ==
    IF api = "btrfsutil" THEN "BtrfsUtilError"
    ELSE CASE res = "enoent" -> "FileNotFoundError"
           [] res = "eperm" -> "PermissionError"
           [] OTHER -> "OSError"

\* rollback's except clauses with FileNotFoundError handled as a btrfs error
rollback_except_oserror(exc) ==
    CASE exc = "FileNotFoundError" -> "restore"
      [] exc = "BtrfsUtilError" -> "restore"
      [] OTHER -> "propagate"

\* rollback's except clauses with the FileNotFoundError handler re-raising
rollback_except_reraise(exc) ==
    CASE exc = "BtrfsUtilError" -> "restore"
      [] OTHER -> "propagate"

\* lines 140, 144: the except clauses of rollback
rollback_except(exc) ==
    CASE exc = "FileNotFoundError" -> "missing"
      [] exc = "BtrfsUtilError" -> "restore"
      [] OTHER -> "propagate"

\* the old root removed instead of renamed
rename_effect_remove(f, src, dst) == [f EXCEPT ![src] = "none"]

\* os.rename(src, dst): dst now names what src named, src is gone
rename_effect(f, src, dst) == [f EXCEPT ![dst] = f[src], ![src] = "none"]

\* Results os.rename(src, dst) can have on f.  A missing source is ENOENT
\* unless the kernel refuses the call first: EACCES when the mountpoint is
\* not searchable, EROFS when it is mounted read-only.  Only a missing or
\* empty destination directory can be replaced.
rename_results(f, src, dst) ==
    (IF f[src] = "none" THEN {"enoent"}
     ELSE IF f[dst] \in {"none", "emptydir"} THEN {"ok"} ELSE {})
    \cup {"eperm", "other"}

\* Results of os.makedirs(dirpath) on a path that is not a directory: ENOENT
\* when a parent is a dangling symlink, EACCES, or any other OSError.
makedirs_results == {"ok", "enoent", "eperm", "other"}

\* Results of a btrfsutil call and of an os.system command.
call_results == {"ok", "enoent", "eperm", "other"}
system_results == {"ok", "eperm", "other"}

Line(level, msg, arg) == [level |-> level, msg |-> msg, arg |-> arg]
Op(name, res) == [op |-> name, res |-> res]

(* ---------------------------------------------------------------------- *)
(* Initial states                                                          *)
(* ---------------------------------------------------------------------- *)

Init ==
    /\ cfg \in [section : BOOLEAN, missing : MissingKey, dev : DevOpt,
                set_default_subvol : BoolOpt, unmount_btrfs_root : BoolOpt,
                dry_run : BOOLEAN]
    /\ \E m \in MountStart, a \in MainStart, b \in NewnameStart :
          fs0 = [dir |-> m.dir, mounted |-> m.mounted, main |-> a,
                 newname |-> b, default |-> "top"]
    /\ fs = fs0
    /\ pc = "config"
    /\ confirmation = "unread"
    /\ log = <<>>
    /\ ops = <<>>
    /\ exitCode = -1
    /\ uncaught = "none"

(* ---------------------------------------------------------------------- *)
(* Ends of the run                                                         *)
(* ---------------------------------------------------------------------- *)

\* sys.exit(code) / falling off the end of main
Exit(code, lg) ==
    /\ pc' = "done"
    /\ exitCode' = code
    /\ log' = lg
    /\ uncaught' = "none"

\* lines 205-207: an exception leaving the try block of main.  PermissionError
\* is logged as fatal and exit(1); anything else is an uncaught traceback,
\* which ends the interpreter with status 1.
Raise(exc, lg) ==
    /\ pc' = "done"
    /\ exitCode' = 1
    /\ IF exc = "PermissionError"
       THEN /\ log' = Append(lg, Line("fatal", "Permission denied", "-"))
            /\ uncaught' = "none"
       ELSE /\ log' = lg
            /\ uncaught' = exc

\* An exception raised outside the try block of main.
Crash(exc) ==
    /\ pc' = "done"
    /\ exitCode' = 1
    /\ uncaught' = exc
    /\ UNCHANGED log

(* ---------------------------------------------------------------------- *)
(* Steps of main                                                           *)
(* ---------------------------------------------------------------------- *)

\* lines 157-178
LoadConfig ==
    /\ pc = "config"
    /\ IF ~cfg.section
       THEN Exit(1, Append(log, Line("fatal", "Missing config section", "-")))
       ELSE IF required_missing(cfg)
       THEN Crash("NoOptionError")
       ELSE IF cfg.set_default_subvol = "invalid"
       THEN Crash("ValueError")
       ELSE /\ pc' = "confirm"
            /\ UNCHANGED <<log, exitCode, uncaught>>
    /\ UNCHANGED <<cfg, fs0, fs, confirmation, ops>>

\* lines 180-187: a line is read from standard input
Confirm ==
    /\ pc = "confirm"
    /\ \E c \in Inputs :
          /\ confirmation' = c
          /\ IF confirmed(c)
             THEN /\ pc' = "ensure_dir"
                  /\ UNCHANGED <<log, exitCode, uncaught>>
             ELSE Exit(0, Append(log, Line("fatal", "Bad confirmation", "-")))
    /\ UNCHANGED <<cfg, fs0, fs, ops>>

\* lines 188-189: KeyboardInterrupt at the prompt
ConfirmInterrupt ==
    /\ pc = "confirm"
    /\ confirmation' = "interrupt"
    /\ Exit(1, log)
    /\ UNCHANGED <<cfg, fs0, fs, ops>>

\* line 182: end of file on standard input, EOFError is not caught
ConfirmEOF ==
    /\ pc = "confirm"
    /\ confirmation' = "eof"
    /\ Crash("EOFError")
    /\ UNCHANGED <<cfg, fs0, fs, ops>>

\* lines 66-75, called from line 84
EnsureDir ==
    /\ pc = "ensure_dir"
    /\ IF fs.dir
       THEN /\ pc' = "mount"
            /\ UNCHANGED <<fs, log, ops, exitCode, uncaught>>
       ELSE IF cfg.dry_run
       THEN /\ pc' = "mount"
            /\ log' = Append(log, Line("info", "mkdir", "mountpoint"))
            /\ UNCHANGED <<fs, ops, exitCode, uncaught>>
       ELSE \E r \in makedirs_results :
               /\ ops' = Append(ops, Op("mkdir", r))
               /\ IF r = "ok"
                  THEN /\ fs' = [fs EXCEPT !.dir = TRUE]
                       /\ pc' = "mount"
                       /\ UNCHANGED <<log, exitCode, uncaught>>
                  ELSE /\ Raise(ExcOf("os", r),
                                Append(log, Line("fatal", "error creating dir", "mountpoint")))
                       /\ UNCHANGED fs
    /\ UNCHANGED <<cfg, fs0, confirmation>>

\* lines 86-94
Mount ==
    /\ pc = "mount"
    /\ IF ~needs_mount(fs)
       THEN /\ pc' = "rollback"
            /\ UNCHANGED <<fs, log, ops, exitCode, uncaught>>
       ELSE IF cfg.dry_run
       THEN /\ pc' = "rollback"
            /\ log' = Append(log, Line("info", "mount", cfg.dev))
            /\ UNCHANGED <<fs, ops, exitCode, uncaught>>
       ELSE \E r \in system_results :
               /\ ops' = Append(ops, Op("mount", r))
               /\ IF r = "ok"
                  THEN /\ fs' = [fs EXCEPT !.mounted = TRUE]
                       /\ pc' = "rollback"
                       /\ UNCHANGED <<log, exitCode, uncaught>>
                  ELSE /\ Raise("OSError", log)
                       /\ UNCHANGED fs
    /\ UNCHANGED <<cfg, fs0, confirmation>>

\* What rollback does with an exception raised in its try block.
RollbackExcept(exc, lg) ==
    CASE rollback_except(exc) = "missing" ->
            /\ pc' = "unmount"
            /\ log' = Append(lg, Line("fatal", "Missing", cfg.dev))
            /\ UNCHANGED <<exitCode, uncaught>>
      [] rollback_except(exc) = "restore" ->
            /\ pc' = "restore"
            /\ log' = Append(lg, Line("error", "btrfs error", "-"))
            /\ UNCHANGED <<exitCode, uncaught>>
      [] OTHER -> Raise(exc, lg)

Complete(lg) == Append(lg, Line("info", "complete", "subvol_rollback_src"))

\* lines 121-129, 135-139: the dry-run branch of rollback
RollbackDryRun ==
    /\ pc = "rollback"
    /\ cfg.dry_run
    /\ pc' = "unmount"
    /\ log' = Complete(
                (log \o <<Line("info", "mv", "subvol_main"),
                          Line("info", "snapshot", "subvol_main")>>)
                \o (IF get_set_default_subvol(cfg)
                    THEN <<Line("info", "set-default", "subvol_main")>>
                    ELSE <<>>))
    /\ UNCHANGED <<cfg, fs0, fs, confirmation, ops, exitCode, uncaught>>

\* line 131: os.rename(subvol_main, subvol_main_newname)
Rename ==
    /\ pc = "rollback"
    /\ ~cfg.dry_run
    /\ \E r \in rename_results(fs, "main", "newname") :
          /\ ops' = Append(ops, Op("rename", r))
          /\ IF r = "ok"
             THEN /\ fs' = rename_effect(fs, "main", "newname")
                  /\ pc' = "snapshot"
                  /\ UNCHANGED <<log, exitCode, uncaught>>
             ELSE /\ RollbackExcept(ExcOf("os", r), log)
                  /\ UNCHANGED fs
    /\ UNCHANGED <<cfg, fs0, confirmation>>

\* line 132: btrfsutil.create_snapshot(subvol_rollback_src, subvol_main)
Snapshot ==
    /\ pc = "snapshot"
    /\ \E r \in call_results :
          /\ ops' = Append(ops, Op("snapshot", r))
          /\ IF r = "ok"
             THEN /\ fs' = [fs EXCEPT !.main = "snap"]
                  /\ IF get_set_default_subvol(cfg)
                     THEN /\ pc' = "set_default"
                          /\ UNCHANGED log
                     ELSE /\ pc' = "unmount"
                          /\ log' = Complete(log)
                  /\ UNCHANGED <<exitCode, uncaught>>
             ELSE /\ RollbackExcept(ExcOf("btrfsutil", r), log)
                  /\ UNCHANGED fs
    /\ UNCHANGED <<cfg, fs0, confirmation>>

\* lines 133-139: btrfsutil.set_default_subvolume(subvol_main)
SetDefault ==
    /\ pc = "set_default"
    /\ \E r \in call_results :
          /\ ops' = Append(ops, Op("set-default", r))
          /\ IF r = "ok"
             THEN /\ fs' = [fs EXCEPT !.default = fs.main]
                  /\ pc' = "unmount"
                  /\ log' = Complete(log)
                  /\ UNCHANGED <<exitCode, uncaught>>
             ELSE /\ RollbackExcept(ExcOf("btrfsutil", r), log)
                  /\ UNCHANGED fs
    /\ UNCHANGED <<cfg, fs0, confirmation>>

\* lines 148-153: the compensating rename of the BtrfsUtilError handler
Restore ==
    /\ pc = "restore"
    /\ IF ~needs_restore(fs)
       THEN /\ pc' = "unmount"
            /\ UNCHANGED <<fs, log, ops, exitCode, uncaught>>
       ELSE LET lg == Append(log, Line("info", "Moving back", "subvol_main"))
            IN IF cfg.dry_run
               THEN /\ pc' = "unmount"
                    /\ log' = Append(lg, Line("warning", "mv", "subvol_main_newname"))
                    /\ UNCHANGED <<fs, ops, exitCode, uncaught>>
               ELSE \E r \in rename_results(fs, "newname", "main") :
                       /\ ops' = Append(ops, Op("restore", r))
                       /\ IF r = "ok"
                          THEN /\ fs' = rename_effect(fs, "newname", "main")
                               /\ pc' = "unmount"
                               /\ log' = lg
                               /\ UNCHANGED <<exitCode, uncaught>>
                          ELSE /\ Raise(ExcOf("os", r), lg)
                               /\ UNCHANGED fs
    /\ UNCHANGED <<cfg, fs0, confirmation>>

\* lines 203-204 and 97-112
Unmount ==
    /\ pc = "unmount"
    /\ IF cfg.unmount_btrfs_root = "invalid"
       THEN /\ Raise("ValueError", log)
            /\ UNCHANGED <<fs, ops>>
       ELSE IF ~get_unmount_btrfs_root(cfg)
       THEN /\ Exit(0, log)
            /\ UNCHANGED <<fs, ops>>
       ELSE IF unmount_skips(fs, cfg.dry_run)
       THEN /\ Exit(0, Append(log, Line("warning", "Not mounted", "mountpoint")))
            /\ UNCHANGED <<fs, ops>>
       ELSE IF cfg.dry_run
       THEN /\ Exit(0, Append(log, Line("info", "umount", "mountpoint")))
            /\ UNCHANGED <<fs, ops>>
       ELSE \E r \in system_results :
               /\ ops' = Append(ops, Op("umount", r))
               /\ IF r = "ok"
                  THEN /\ fs' = [fs EXCEPT !.mounted = FALSE]
                       /\ Exit(0, log)
                  ELSE /\ Raise("OSError", log)
                       /\ UNCHANGED fs
    /\ UNCHANGED <<cfg, fs0, confirmation>>

Next ==
    \/ LoadConfig
    \/ Confirm
    \/ ConfirmInterrupt
    \/ ConfirmEOF
    \/ EnsureDir
    \/ Mount
    \/ RollbackDryRun
    \/ Rename
    \/ Snapshot
    \/ SetDefault
    \/ Restore
    \/ Unmount

Spec == Init /\ [][Next]_vars

(* ---------------------------------------------------------------------- *)
(* Vocabulary of the properties                                            *)
(* ---------------------------------------------------------------------- *)

Count(msg) == Cardinality({i \in DOMAIN log : log[i].msg = msg})
Logged(l) == \E i \in DOMAIN log : log[i] = l
Did(name, res) == \E i \in DOMAIN ops : ops[i] = Op(name, res)
Tried(name) == \E i \in DOMAIN ops : ops[i].op = name
Failed(name) == \E i \in DOMAIN ops : ops[i].op = name /\ ops[i].res # "ok"
Finished == pc = "done"
Confirmed == confirmation = "CONFIRM"
Untouched == ops = <<>> /\ fs = fs0
UnmountCalled == Tried("umount") \/ Count("Not mounted") > 0

\* The subvolume names and the default subvolume, without the mount state.
Subvols(f) == <<f.main, f.newname, f.default>>

(* ---------------------------------------------------------------------- *)
(* C1                                                                      *)
(* ---------------------------------------------------------------------- *)

\* C1: in a dry run no mkdir, mount, umount, rename, snapshot or set-default
\* is executed, the filesystem state stays what it was at the start, no
\* command is logged twice, and a completed dry run has logged exactly one
\* line for every command a real run would have executed.
C1_DryRunOnlyLogs ==
    cfg.dry_run =>
        /\ Untouched
        /\ \A m \in {"mkdir", "mount", "mv", "snapshot", "set-default", "umount"} :
              Count(m) <= 1
        /\ (Finished /\ Confirmed /\ exitCode = 0) =>
              /\ Count("mkdir") = (IF fs0.dir THEN 0 ELSE 1)
              /\ Count("mount") = (IF fs0.mounted THEN 0 ELSE 1)
              /\ Count("mv") = 1
              /\ Count("snapshot") = 1
              /\ Count("set-default") = (IF get_set_default_subvol(cfg) THEN 1 ELSE 0)
              /\ Count("umount") = (IF get_unmount_btrfs_root(cfg) THEN 1 ELSE 0)

C1_Witness ==
    /\ cfg.dry_run /\ Finished /\ exitCode = 0
    /\ ~fs0.dir /\ fs = fs0
    /\ Count("mkdir") = 1 /\ Count("mount") = 1 /\ Count("mv") = 1
    /\ Count("set-default") = 1 /\ Count("umount") = 1

(* ---------------------------------------------------------------------- *)
(* C2                                                                      *)
(* ---------------------------------------------------------------------- *)

\* C2: when the line read at the prompt is not exactly CONFIRM, nothing is
\* executed, the filesystem is unchanged and the process has exited with 0.
C2_BadConfirmation ==
    (confirmation \in Inputs /\ confirmation # "CONFIRM") =>
        Untouched /\ Finished /\ exitCode = 0

C2_Witness ==
    /\ confirmation = "confirm" /\ Finished /\ exitCode = 0 /\ Untouched
    /\ Logged(Line("fatal", "Bad confirmation", "-"))

(* ---------------------------------------------------------------------- *)
(* C3                                                                      *)
(* ---------------------------------------------------------------------- *)

\* C3: with the section absent the process exits with 1 and mutates nothing;
\* with a required key missing the run ends with an error (NoOptionError,
\* status 1) before the prompt and before any mutation.
C3_ConfigErrors ==
    /\ ~cfg.section =>
          /\ Untouched
          /\ pc \in {"config", "done"}
          /\ Finished => exitCode = 1 /\ Logged(Line("fatal", "Missing config section", "-"))
    /\ (cfg.section /\ cfg.missing # "none") =>
          /\ Untouched
          /\ pc \in {"config", "done"}
          /\ Finished => exitCode = 1 /\ uncaught = "NoOptionError"

C3_Witness ==
    /\ cfg.section /\ cfg.missing = "subvol_snapshots" /\ ~cfg.dry_run
    /\ fs0.main = "orig"
    /\ Finished /\ exitCode = 1 /\ Untouched

(* ---------------------------------------------------------------------- *)
(* C4                                                                      *)
(* ---------------------------------------------------------------------- *)

\* rename succeeded, snapshot creation failed, subvol_main missing afterwards,
\* and the handler of rollback has run
SnapshotFailedAfterRename ==
    /\ ~cfg.dry_run
    /\ Did("rename", "ok")
    /\ Failed("snapshot")
    /\ pc \in {"unmount", "done"}

\* C4 as stated: after a successful rename and a failed snapshot the old root
\* is renamed back and the filesystem is exactly as it was before the run.
C4_AsStated ==
    SnapshotFailedAfterRename => Did("restore", "ok") /\ fs = fs0

\* C4 amended: the compensating rename is attempted exactly once; when it
\* succeeds the original subvolume is back at subvol_main, nothing is left at
\* subvol_main_newname and the default subvolume is unchanged.  (The mount
\* and the mountpoint directory made by the mount step are not undone, and a
\* failing compensating rename leaves the old root at subvol_main_newname.)
C4_RestoreAttempted ==
    SnapshotFailedAfterRename =>
        /\ Cardinality({i \in DOMAIN ops : ops[i].op = "restore"}) = 1
        /\ Did("restore", "ok") =>
              /\ fs.main = "orig" /\ fs.main = fs0.main
              /\ fs.newname = "none"
              /\ fs.default = fs0.default
        /\ ~Did("restore", "ok") =>
              fs.main = "none" /\ fs.newname = "orig" /\ Finished /\ exitCode = 1

C4_Witness ==
    /\ SnapshotFailedAfterRename /\ Did("restore", "ok")
    /\ fs.main = "orig" /\ fs.newname = "none" /\ Finished

(* ---------------------------------------------------------------------- *)
(* C5                                                                      *)
(* ---------------------------------------------------------------------- *)

\* C5 as stated: when subvol_main does not exist, a real run renames
\* nothing, never calls snapshot or set-default, never attempts the
\* compensating rename, and once rollback has run the fatal line naming the
\* device is logged.
C5_AsStated ==
    (~cfg.dry_run /\ fs0.main = "none") =>
        /\ ~Did("rename", "ok")
        /\ ~Tried("snapshot") /\ ~Tried("set-default") /\ ~Tried("restore")
        /\ Tried("rename") => Logged(Line("fatal", "Missing", cfg.dev))

\* C5 amended: when subvol_main does not exist, a real run renames nothing,
\* never calls snapshot or set-default and never attempts the compensating
\* rename; when os.rename reports the missing source (FileNotFoundError) the
\* fatal line naming the device is logged and the run goes on to unmount;
\* when the kernel refuses the rename first, the error leaves rollback and
\* the run ends with status 1 without that line: PermissionError is logged
\* as "Permission denied", any other OSError is uncaught.
C5_MissingMain ==
    (~cfg.dry_run /\ fs0.main = "none") =>
        /\ ~Did("rename", "ok")
        /\ ~Tried("snapshot") /\ ~Tried("set-default") /\ ~Tried("restore")
        /\ Subvols(fs) = Subvols(fs0)
        /\ Count("complete") = 0
        /\ Did("rename", "enoent") =>
              /\ Logged(Line("fatal", "Missing", cfg.dev))
              /\ pc \in {"unmount", "done"}
        /\ Did("rename", "eperm") =>
              /\ Count("Missing") = 0
              /\ Finished /\ exitCode = 1 /\ uncaught = "none"
              /\ Logged(Line("fatal", "Permission denied", "-"))
              /\ ~UnmountCalled
        /\ Did("rename", "other") =>
              /\ Count("Missing") = 0
              /\ Finished /\ exitCode = 1 /\ uncaught = "OSError"
              /\ ~UnmountCalled

C5_Witness ==
    /\ ~cfg.dry_run /\ fs0.main = "none" /\ Did("rename", "enoent")
    /\ cfg.dev = "/dev/sda2"
    /\ Logged(Line("fatal", "Missing", "/dev/sda2"))
    /\ Finished

(* ---------------------------------------------------------------------- *)
(* C6                                                                      *)
(* ---------------------------------------------------------------------- *)

EnteredRollback == Tried("rename") \/ Count("mv") >= 1

\* C6: when the mountpoint is already a mount point the mount command is
\* neither executed nor logged and the run goes on to rollback; a mount
\* command is executed or logged only when the target was not mounted.
C6_NoRemount ==
    /\ fs0.mounted =>
          /\ ~Tried("mount") /\ Count("mount") = 0
          /\ (Confirmed /\ pc \notin {"ensure_dir", "mount"}) =>
                (pc = "rollback" \/ EnteredRollback)
    /\ (Tried("mount") \/ Count("mount") > 0) => ~fs0.mounted
    /\ Count("mount") + Cardinality({i \in DOMAIN ops : ops[i].op = "mount"}) <= 1

C6_Witness ==
    /\ fs0.mounted /\ ~cfg.dry_run /\ Confirmed /\ Did("rename", "ok")
    /\ ~Tried("mount")

(* ---------------------------------------------------------------------- *)
(* C7                                                                      *)
(* ---------------------------------------------------------------------- *)

\* C7 as stated: a permission failure of any step of mount, rollback or
\* unmount ends the run through the top-level handler: the fatal line
\* "Permission denied" is logged and the exit status is 1.
C7_AsStated ==
    ((\E i \in DOMAIN ops : ops[i].res = "eperm") /\ Finished) =>
        /\ exitCode = 1
        /\ uncaught = "none"
        /\ Logged(Line("fatal", "Permission denied", "-"))

(* ---------------------------------------------------------------------- *)
(* C8                                                                      *)
(* ---------------------------------------------------------------------- *)

Rank(name) == CASE name = "mkdir" -> 0
                [] name = "mount" -> 1
                [] name = "rename" -> 2
                [] name = "snapshot" -> 3
                [] name = "set-default" -> 4
                [] name = "restore" -> 5
                [] OTHER -> 6

Before(j, name, res) == \E i \in DOMAIN ops : i < j /\ ops[i] = Op(name, res)

\* C8: in a real run the steps happen in the order mkdir, mount, rename,
\* snapshot, set-default, each at most once and only after every earlier
\* step succeeded; set-default only when configured; the compensating
\* rename happens at most once, only after a successful rename and a failed
\* snapshot, never after a successful snapshot, and nothing but umount
\* follows it.
C8_StepOrder ==
    ~cfg.dry_run =>
        /\ \A i, j \in DOMAIN ops : i < j =>
              /\ Rank(ops[i].op) < Rank(ops[j].op)
              /\ ops[j].op \in {"mount", "rename", "snapshot", "set-default"}
                    => ops[i].res = "ok"
        /\ \A j \in DOMAIN ops :
              /\ ops[j].op = "rename" => (fs0.mounted \/ Before(j, "mount", "ok"))
              /\ ops[j].op = "snapshot" => Before(j, "rename", "ok")
              /\ ops[j].op = "set-default" =>
                    Before(j, "snapshot", "ok") /\ get_set_default_subvol(cfg)
              /\ ops[j].op = "restore" =>
                    /\ Before(j, "rename", "ok")
                    /\ \E i \in DOMAIN ops : i < j /\ ops[i].op = "snapshot"
                                              /\ ops[i].res # "ok"
                    /\ ~Did("snapshot", "ok")

C8_Witness ==
    /\ ~cfg.dry_run /\ Finished
    /\ Did("mount", "ok") /\ Did("rename", "ok") /\ Did("snapshot", "ok")
    /\ Failed("set-default") /\ ~Tried("restore")

(* ---------------------------------------------------------------------- *)
(* C9                                                                      *)
(* ---------------------------------------------------------------------- *)

\* C9: the subvolume that was at subvol_main when the run started is, in
\* every state of the run, at exactly one of subvol_main and
\* subvol_main_newname.
C9_OldRootKept ==
    fs0.main = "orig" => ((fs.main = "orig") # (fs.newname = "orig"))

C9_Witness ==
    /\ fs0.main = "orig" /\ fs.newname = "orig" /\ fs.main = "snap"
    /\ fs.default = "snap" /\ Finished

(* ---------------------------------------------------------------------- *)
(* C10                                                                     *)
(* ---------------------------------------------------------------------- *)

\* rollback met a failure and returned normally
HandledFailure ==
    /\ ~cfg.dry_run
    /\ pc \in {"unmount", "done"}
    /\ \/ Did("rename", "enoent")
       \/ ((Failed("snapshot") \/ Failed("set-default")) /\ ~Failed("restore"))

\* C10 as stated: after a failure handled inside rollback the unmount step
\* runs when configured, no success line is logged and the exit status is 0.
C10_AsStated ==
    (HandledFailure /\ Finished) =>
        /\ get_unmount_btrfs_root(cfg) => UnmountCalled
        /\ Count("complete") = 0
        /\ exitCode = 0

\* C10 amended: after a failure handled inside rollback no success line is
\* logged, the unmount step runs when unmount_btrfs_root is true, and the
\* exit status is 0 unless the unmount step itself raises (unmount_btrfs_root
\* is not a boolean, or umount fails), which is uncaught and ends with 1; in
\* a confirmed real run with unmount_btrfs_root true the umount is skipped
\* only when an error left mkdir, mount, rename or the compensating rename.
C10_HandledFailureGoesOn ==
    /\ HandledFailure =>
          /\ Count("complete") = 0
          /\ Finished =>
                /\ get_unmount_btrfs_root(cfg) => UnmountCalled
                /\ (cfg.unmount_btrfs_root # "invalid" /\ ~Failed("umount"))
                      => exitCode = 0 /\ uncaught = "none"
                /\ cfg.unmount_btrfs_root = "invalid"
                      => exitCode = 1 /\ uncaught = "ValueError"
                /\ Failed("umount") => exitCode = 1 /\ uncaught = "OSError"
    /\ (~cfg.dry_run /\ Confirmed /\ Finished /\ get_unmount_btrfs_root(cfg)
          /\ ~UnmountCalled) =>
          /\ exitCode = 1
          /\ \/ Failed("mkdir") \/ Failed("mount") \/ Failed("restore")
             \/ (Failed("rename") /\ ~Did("rename", "enoent"))

C10_Witness ==
    /\ HandledFailure /\ Finished /\ Did("rename", "enoent")
    /\ Did("umount", "ok") /\ exitCode = 0 /\ ~fs.mounted

====
